---------------------------- MODULE Spec2Model ----------------------------
(***************************************************************************)
(* ShiftGuard (src/shiftguard.py): rule based monthly shift generation     *)
(* with labour-risk warnings.  The model follows ShiftGuard.generate_      *)
(* schedule and ShiftGuard._check_labor_risks statement by statement.      *)
(*                                                                         *)
(* Dates of the target month are the integers 1..days_in_month; date - 1   *)
(* is the previous calendar day, so 0 is the last day of the previous      *)
(* month and days_in_month + 1 the first day of the next one.  The         *)
(* predicate _is_weekend_or_holiday (weekday() and the external jpholiday  *)
(* calendar) is the set `weekend' of dates for which it answers True.      *)
(* Staff are identified by their position in the roster (staff_id is the   *)
(* unique key of the staff_state dictionary, iterated in insertion order). *)
(***************************************************************************)
EXTENDS Integers, Sequences, FiniteSets, TLC

\* ------------------------------------------------------------------ bounds
MaxDays == 4
MaxStaff == 2
MaxDesired == 4
MaxMinStaff == 1
MaxExtra == 2
MaxDeviations == 1
\* bounds of the specification of runs over short months with one more
\* deviation from the reference input
MaxWideDays == 2
MaxWideStaff == 1
MaxWideDeviations == 2
\* bounds of the specification of runs of the six-staff sample roster
MaxSampleDays == 3
MaxSampleSurplus == 1
MaxSampleDeviations == 2
\* bounds of the specification of the extra-slot distribution alone
\* calls of generate_schedule on one instance
MaxCalls == 2

MaxDistDays == 4
MaxDistExtra == 7

\* ------------------------------------------------------- program constants
PENALTY == 1000
DEFAULT_CONSECUTIVE_YELLOW == 6
DEFAULT_CONSECUTIVE_RED == 8
DEFAULT_OVERTIME_YELLOW == 45
DEFAULT_OVERTIME_RED == 54
DEFAULT_DAY_HOURS == 8
DEFAULT_NIGHT_HOURS == 10
DEFAULT_MONTH_HOURS == 160

\* the sample input: six staff, three DAY and two NIGHT slots a day
SAMPLE_STAFF == 6
SAMPLE_MIN_STAFF_DAY == 3
SAMPLE_MIN_STAFF_NIGHT == 2

\* a key the config row does not hold (self.config.get(key, default))
KeyAbsent == -1

VARIABLES
    pc,                 \* position in main and in generate_schedule
    workbook,           \* the columns and keys the input workbook holds
    days_in_month,      \* calendar.monthrange(year, month)[1]
    weekend,            \* dates d with _is_weekend_or_holiday(d)
    config,             \* self.config (one row of the config sheet)
    staff_df,           \* self.staff_df: the roster, in input order
    daily_demand,       \* date -> extra slots (daily_demand.get(date, 0))
    extra_distributed,  \* local of the distribution loop
    cycle_index,        \* local of the distribution loop
    staff_state,        \* staff -> state record (the staff_state dict)
    date_idx,           \* the date of the running iteration of phase 2
    available_staff,    \* the sorted candidate list of that date
    day_assigned,       \* staff given DAY on that date, in order
    night_assigned,     \* staff given NIGHT on that date, in order
    min_day_today,      \* that date's DAY target
    min_night_today,    \* that date's NIGHT target
    rules,              \* self.rules (the rules file)
    schedule,           \* self.schedule
    warnings,           \* self.warnings
    earlier             \* what the caller saw after each earlier call of
                        \* generate_schedule on the instance

vars == <<pc, workbook, days_in_month, weekend, config, staff_df, daily_demand,
          extra_distributed, cycle_index, staff_state, date_idx,
          available_staff, day_assigned, night_assigned, min_day_today,
          min_night_today, rules, schedule, warnings, earlier>>

\* ----------------------------------------------------------------- helpers
Max(a, b) == IF a >= b THEN a ELSE b

MinOf(S) == CHOOSE x \in S : \A y \in S : x <= y

\* sorted(...) of a set of dates: ascending sequence
RECURSIVE SortedDates(_)
SortedDates(S) ==
    IF S = {} THEN <<>>
    ELSE LET m == MinOf(S) IN <<m>> \o SortedDates(S \ {m})

RECURSIVE SumSeq(_)
SumSeq(s) == IF s = <<>> THEN 0 ELSE Head(s) + SumSeq(Tail(s))

RECURSIVE SumFun(_, _)
SumFun(f, S) ==
    IF S = {} THEN 0
    ELSE LET x == CHOOSE y \in S : TRUE IN f[x] + SumFun(f, S \ {x})

Range(s) == {s[i] : i \in 1..Len(s)}

\* dates = [date(year, month, day) for day in range(1, days_in_month + 1)]
Dates == 1..days_in_month

\* _is_weekend_or_holiday(d)
IsWeekendOrHoliday(d) == d \in weekend

\* weekend_dates / weekday_dates, in date order
WeekendDates == SortedDates({d \in Dates : IsWeekendOrHoliday(d)})
WeekdayDates == SortedDates({d \in Dates : ~IsWeekendOrHoliday(d)})

Warning(sev, code, staff, date) ==
    [severity |-> sev, code |-> code, staff |-> staff, date |-> date]

\* ------------------------------------------------------------- capacity check
BaseSlots == (config.min_staff_day + config.min_staff_night) * days_in_month
TotalSlotsNeeded == BaseSlots + config.variable_extra_slots_month
SupplySlots == SumSeq([i \in 1..Len(staff_df) |-> staff_df[i].desired_days])

\* variant: the second test is an if of its own, not an elif
CapacityWarningsBothTests ==
    (IF SupplySlots < BaseSlots
     THEN <<Warning("RED", "INSUFFICIENT_CAPACITY_BASE", 0, 0)>> ELSE <<>>)
    \o (IF SupplySlots < TotalSlotsNeeded
        THEN <<Warning("YELLOW", "INSUFFICIENT_CAPACITY_PEAK", 0, 0)>> ELSE <<>>)

\* lines 105-121
CapacityWarnings ==
    IF SupplySlots < BaseSlots
    THEN <<Warning("RED", "INSUFFICIENT_CAPACITY_BASE", 0, 0)>>
    ELSE IF SupplySlots < TotalSlotsNeeded
    THEN <<Warning("YELLOW", "INSUFFICIENT_CAPACITY_PEAK", 0, 0)>>
    ELSE <<>>

\* lines 86-131: the capacity report and the locals of the distribution loop
CapacityCheck ==
    /\ pc = "capacity"
    /\ warnings' = warnings \o CapacityWarnings
    /\ daily_demand' = [d \in Dates |-> 0]
    /\ extra_distributed' = 0
    /\ cycle_index' = 0
    /\ pc' = "dist_weekend"
    /\ UNCHANGED <<earlier, workbook, days_in_month, weekend, config, staff_df, staff_state,
                   date_idx, available_staff, day_assigned, night_assigned,
                   min_day_today, min_night_today, rules, schedule>>

\* ------------------------------------------------ distribution of extra slots
\* line 132: while extra_distributed < variable_extra
SlotsRemain(e, v) == e < v

\* variant: the break after the weekend/holiday placement is missing
BreakNever(e, v) == FALSE

\* line 139: if extra_distributed >= variable_extra: break
DistributionDone(e, v) == e >= v

\* variant: the number of weekend/holiday dates is left out of the test
SpillAfterTwoSlots(c, nWeekend) == c >= 2

\* if cycle_index >= len(weekend_dates) * 2
SpillToWeekdays(c, nWeekend) == c >= nWeekend * 2

\* weekend_dates[cycle_index % len(weekend_dates)]  (0-based list index)
WeekendTarget(c) == WeekendDates[(c % Len(WeekendDates)) + 1]

\* weekday_dates[extra_distributed % len(weekday_dates)]
WeekdayTarget(e) == WeekdayDates[(e % Len(WeekdayDates)) + 1]

DistFrame == UNCHANGED <<earlier, workbook, days_in_month, weekend, config, staff_df, staff_state,
                         date_idx, available_staff, day_assigned,
                         night_assigned, min_day_today, min_night_today,
                         rules, schedule, warnings>>

\* lines 132-140: the loop test and the weekend/holiday placement
DistributeWeekend ==
    /\ pc = "dist_weekend"
    /\ IF ~SlotsRemain(extra_distributed, config.variable_extra_slots_month)
       THEN /\ pc' = "init_staff"
            /\ UNCHANGED <<daily_demand, extra_distributed, cycle_index>>
       ELSE IF WeekendDates # <<>>
       THEN /\ daily_demand' =
                   [daily_demand EXCEPT ![WeekendTarget(cycle_index)] = @ + 1]
            /\ extra_distributed' = extra_distributed + 1
            /\ cycle_index' = cycle_index + 1
            /\ pc' = IF DistributionDone(extra_distributed + 1,
                                         config.variable_extra_slots_month)
                     THEN "init_staff" ELSE "dist_weekday"
       ELSE /\ pc' = "dist_weekday"
            /\ UNCHANGED <<daily_demand, extra_distributed, cycle_index>>
    /\ DistFrame

\* variant: the else branch is missing and the loop goes round again
NoWeekdayContinue == "dist_weekend"

\* lines 148-149: else: break  (there is no weekday date to place a slot on)
NoWeekdayExit == "init_staff"

\* lines 142-149: the spill-over to weekday dates
DistributeWeekday ==
    /\ pc = "dist_weekday"
    /\ IF SpillToWeekdays(cycle_index, Len(WeekendDates))
       THEN IF WeekdayDates # <<>>
            THEN /\ daily_demand' =
                        [daily_demand EXCEPT ![WeekdayTarget(extra_distributed)] = @ + 1]
                 /\ extra_distributed' = extra_distributed + 1
                 /\ pc' = "dist_weekend"
                 /\ UNCHANGED cycle_index
            ELSE /\ pc' = NoWeekdayExit
                 /\ UNCHANGED <<daily_demand, extra_distributed, cycle_index>>
       ELSE /\ pc' = "dist_weekend"
            /\ UNCHANGED <<daily_demand, extra_distributed, cycle_index>>
    /\ DistFrame


\* ------------------------------------------------------------ staff state
\* 'last_shift_date': None
NoDate == -1

\* state['shifts'] is a dict date -> shift type: a function whose domain is
\* the set of keys present
EmptyShifts == [d \in {} |-> "OFF"]
SetShift(shifts, d, shift_type) == (d :> shift_type) @@ shifts
HasShift(shifts, d) == d \in DOMAIN shifts
\* state['shifts'].get(date)
GetShift(shifts, d) == IF d \in DOMAIN shifts THEN shifts[d] ELSE "NONE"

\* lines 166-178: the record built for one row of the staff sheet
InitialState(row) ==
    [desired_days        |-> row.desired_days,
     can_day             |-> row.can_day,
     can_night           |-> row.can_night,
     can_weekend_holiday |-> row.can_weekend_holiday,
     requested_off       |-> row.requested_off,
     assigned_days       |-> 0,
     last_shift_date     |-> NoDate,
     last_shift_type     |-> "NONE",
     consecutive_days    |-> 0,
     shifts              |-> EmptyShifts]

StaffIds == 1..Len(staff_df)

\* lines 154-178
InitStaffState ==
    /\ pc = "init_staff"
    /\ staff_state' = [sid \in StaffIds |-> InitialState(staff_df[sid])]
    /\ pc' = "phase1"
    /\ UNCHANGED <<earlier, workbook, days_in_month, weekend, config, staff_df, daily_demand,
                   extra_distributed, cycle_index, date_idx, available_staff,
                   day_assigned, night_assigned, min_day_today,
                   min_night_today, rules, schedule, warnings>>

\* variant: the loop runs over requested_off instead of the dates of the month
RequestedOffShiftsAnyDate(state) ==
    [d \in state.requested_off |-> "OFF"] @@ state.shifts

\* lines 181-184 for one staff member: every date of the month that is in
\* requested_off is set to OFF
RequestedOffShifts(state) ==
    [d \in {x \in Dates : x \in state.requested_off} |-> "OFF"] @@ state.shifts

\* phase 1, lines 180-184
Phase1 ==
    /\ pc = "phase1"
    /\ staff_state' = [sid \in StaffIds |->
                         [staff_state[sid] EXCEPT
                            !.shifts = RequestedOffShifts(staff_state[sid])]]
    /\ date_idx' = 1
    /\ pc' = "begin_date"
    /\ UNCHANGED <<earlier, workbook, days_in_month, weekend, config, staff_df, daily_demand,
                   extra_distributed, cycle_index, available_staff,
                   day_assigned, night_assigned, min_day_today,
                   min_night_today, rules, schedule, warnings>>

\* ------------------------------------------------------ phase 2: one date
\* variant: staff already OFF are not excluded
AvailableOnAlways(sid, d) == TRUE

\* lines 195-196: staff not already OFF on the date, in roster order
AvailableOn(sid, d) == GetShift(staff_state[sid].shifts, d) # "OFF"

AvailableStaff(d) ==
    SelectSeq([i \in 1..Len(staff_df) |-> i], LAMBDA sid : AvailableOn(sid, d))

\* lines 199-206
PriorityKey(sid, d) ==
    LET state == staff_state[sid]
        shortage == state.assigned_days - state.desired_days
    IN IF IsWeekendOrHoliday(d) /\ ~state.can_weekend_holiday
       THEN shortage + PENALTY
       ELSE shortage

\* variant: an element is placed before the elements of equal key, so that
\* equal keys come out in reverse roster order
RECURSIVE SortByPriorityTiesReversed(_, _)
SortByPriorityTiesReversed(seq, d) ==
    IF seq = <<>> THEN <<>>
    ELSE LET n == Len(seq)
             x == seq[n]
             rest == SortByPriorityTiesReversed(SubSeq(seq, 1, n - 1), d)
             k == Cardinality({i \in 1..Len(rest) :
                                 PriorityKey(rest[i], d) < PriorityKey(x, d)})
         IN SubSeq(rest, 1, k) \o <<x>> \o SubSeq(rest, k + 1, Len(rest))

\* line 208: list.sort(key=priority_key), a stable ascending sort; written as
\* an insertion sort that places each element after the elements already
\* placed whose key is not larger
RECURSIVE SortByPriority(_, _)
SortByPriority(seq, d) ==
    IF seq = <<>> THEN <<>>
    ELSE LET n == Len(seq)
             x == seq[n]
             rest == SortByPriority(SubSeq(seq, 1, n - 1), d)
             k == Cardinality({i \in 1..Len(rest) :
                                 PriorityKey(rest[i], d) <= PriorityKey(x, d)})
         IN SubSeq(rest, 1, k) \o <<x>> \o SubSeq(rest, k + 1, Len(rest))

\* lines 211-213
MinDayToday(d) == config.min_staff_day + (daily_demand[d] \div 2)
MinNightToday(d) ==
    config.min_staff_night + (daily_demand[d] - (daily_demand[d] \div 2))

\* lines 187-213: the head of one iteration of the date loop
BeginDate ==
    /\ pc = "begin_date"
    /\ IF date_idx \in Dates
       THEN /\ available_staff' = SortByPriority(AvailableStaff(date_idx), date_idx)
            /\ day_assigned' = <<>>
            /\ night_assigned' = <<>>
            /\ min_day_today' = MinDayToday(date_idx)
            /\ min_night_today' = MinNightToday(date_idx)
            /\ pc' = "fill_day"
       ELSE /\ pc' = "close"
            /\ UNCHANGED <<available_staff, day_assigned, night_assigned,
                           min_day_today, min_night_today>>
    /\ UNCHANGED <<earlier, workbook, days_in_month, weekend, config, staff_df, daily_demand,
                   extra_distributed, cycle_index, staff_state, date_idx,
                   rules, schedule, warnings>>

\* variant: nothing may follow a NIGHT shift, DAY or NIGHT
CanAssignShiftRestAfterNight(state, d, shift_type) ==
    IF state.last_shift_date = NoDate THEN TRUE
    ELSE IF ~HasShift(state.shifts, d - 1) THEN TRUE
    ELSE state.shifts[d - 1] # "NIGHT"

\* variant: the NIGHT -> DAY test is missing
CanAssignShiftNoRest(state, d, shift_type) == TRUE

\* _can_assign_shift, lines 324-343
CanAssignShift(state, d, shift_type) ==
    IF state.last_shift_date = NoDate THEN TRUE
    ELSE IF ~HasShift(state.shifts, d - 1) THEN TRUE
    ELSE ~(state.shifts[d - 1] = "NIGHT" /\ shift_type = "DAY")

\* _update_state, lines 345-360
UpdateState(state, d, shift_type) ==
    [state EXCEPT
       !.last_shift_date = d,
       !.last_shift_type = shift_type,
       !.consecutive_days =
           IF shift_type # "OFF"
           THEN IF HasShift(state.shifts, d - 1) /\ state.shifts[d - 1] # "OFF"
                THEN @ + 1
                ELSE 1
           ELSE 0]

\* lines 223-226 and 237-240: the assignment of one shift
AssignShift(state, d, shift_type) ==
    UpdateState([state EXCEPT !.shifts = SetShift(@, d, shift_type),
                              !.assigned_days = @ + 1],
                d, shift_type)

\* variant: the loop stops one assignment late
SlotsFilledLate(assigned, target) == Len(assigned) > target

\* lines 217 and 232: the target of the date is reached
SlotsFilled(assigned, target) == Len(assigned) >= target

\* variant: the desired_days test is missing
DayCandidateNoLimit(state) == state.can_day

\* variant: the DAY loop stops assigning one day short of desired_days
DayCandidateBelowLimit(state) ==
    state.can_day /\ state.assigned_days + 1 < state.desired_days

\* lines 220 and 235: the capability and desired_days test
DayCandidate(state) == state.can_day /\ state.assigned_days < state.desired_days
NightCandidate(state) == state.can_night /\ state.assigned_days < state.desired_days

\* lines 216-226: the DAY loop from position i of available_staff on;
\* the result is the staff_state and day_assigned it leaves
RECURSIVE FillDayFrom(_, _, _, _)
FillDayFrom(i, st, assigned, d) ==
    IF i > Len(available_staff) THEN [st |-> st, assigned |-> assigned]
    ELSE IF SlotsFilled(assigned, min_day_today)
    THEN [st |-> st, assigned |-> assigned]
    ELSE LET sid == available_staff[i] IN
         IF DayCandidate(st[sid]) /\ CanAssignShift(st[sid], d, "DAY")
         THEN FillDayFrom(i + 1,
                          [st EXCEPT ![sid] = AssignShift(@, d, "DAY")],
                          Append(assigned, sid), d)
         ELSE FillDayFrom(i + 1, st, assigned, d)

\* lines 229-240: the NIGHT loop
RECURSIVE FillNightFrom(_, _, _, _)
FillNightFrom(i, st, assigned, d) ==
    IF i > Len(available_staff) THEN [st |-> st, assigned |-> assigned]
    ELSE LET sid == available_staff[i] IN
         IF sid \in Range(day_assigned)
         THEN FillNightFrom(i + 1, st, assigned, d)
         ELSE IF SlotsFilled(assigned, min_night_today)
         THEN [st |-> st, assigned |-> assigned]
         ELSE IF NightCandidate(st[sid]) /\ CanAssignShift(st[sid], d, "NIGHT")
         THEN FillNightFrom(i + 1,
                            [st EXCEPT ![sid] = AssignShift(@, d, "NIGHT")],
                            Append(assigned, sid), d)
         ELSE FillNightFrom(i + 1, st, assigned, d)

FillFrame == UNCHANGED <<earlier, workbook, days_in_month, weekend, config, staff_df,
                         daily_demand, extra_distributed, cycle_index,
                         date_idx, available_staff, min_day_today,
                         min_night_today, rules, schedule, warnings>>

\* lines 215-226
FillDay ==
    /\ pc = "fill_day"
    /\ LET r == FillDayFrom(1, staff_state, day_assigned, date_idx)
       IN /\ staff_state' = r.st
          /\ day_assigned' = r.assigned
    /\ pc' = "fill_night"
    /\ UNCHANGED night_assigned
    /\ FillFrame

\* lines 228-240
FillNight ==
    /\ pc = "fill_night"
    /\ LET r == FillNightFrom(1, staff_state, night_assigned, date_idx)
       IN /\ staff_state' = r.st
          /\ night_assigned' = r.assigned
    /\ pc' = "shortage"
    /\ UNCHANGED day_assigned
    /\ FillFrame

\* variant: a date that just meets its target counts as short
ShortageWarningAtTarget(assigned, target, allow_solo, kind, d) ==
    IF Len(assigned) <= target
    THEN IF Len(assigned) = 1 /\ allow_solo
         THEN <<Warning("YELLOW", "SOLO_SHIFT_" \o kind, 0, d)>>
         ELSE <<Warning("RED", "UNDERSTAFFED_" \o kind, 0, d)>>
    ELSE <<>>

\* variant: the solo branch does not look at the number assigned
ShortageWarningSoloAnyCount(assigned, target, allow_solo, kind, d) ==
    IF Len(assigned) < target
    THEN IF allow_solo
         THEN <<Warning("YELLOW", "SOLO_SHIFT_" \o kind, 0, d)>>
         ELSE <<Warning("RED", "UNDERSTAFFED_" \o kind, 0, d)>>
    ELSE <<>>

\* lines 247-263 and 266-282 for one shift kind
ShortageWarning(assigned, target, allow_solo, kind, d) ==
    IF Len(assigned) < target
    THEN IF Len(assigned) = 1 /\ allow_solo
         THEN <<Warning("YELLOW", "SOLO_SHIFT_" \o kind, 0, d)>>
         ELSE <<Warning("RED", "UNDERSTAFFED_" \o kind, 0, d)>>
    ELSE <<>>

\* lines 242-282, and the step to the next date
ShortageWarnings ==
    /\ pc = "shortage"
    /\ warnings' = warnings
           \o ShortageWarning(day_assigned, min_day_today,
                              config.allow_solo_day, "DAY", date_idx)
           \o ShortageWarning(night_assigned, min_night_today,
                              config.allow_solo_night, "NIGHT", date_idx)
    /\ date_idx' = date_idx + 1
    /\ pc' = "begin_date"
    /\ UNCHANGED <<earlier, workbook, days_in_month, weekend, config, staff_df, daily_demand,
                   extra_distributed, cycle_index, staff_state,
                   available_staff, day_assigned, night_assigned,
                   min_day_today, min_night_today, rules, schedule>>


\* ------------------------------------------------- phase 4 and the flat list
\* variant: the closing fill writes OFF on every date of the month
CloseShiftsEveryDate(shifts) == [d \in Dates |-> "OFF"]

\* lines 286-288 for one staff member: dates of the month not yet in shifts
CloseShifts(shifts) ==
    [d \in {x \in Dates : ~HasShift(shifts, x)} |-> "OFF"] @@ shifts

\* lines 284-288
CloseMatrix ==
    /\ pc = "close"
    /\ staff_state' = [sid \in StaffIds |->
                         [staff_state[sid] EXCEPT !.shifts = CloseShifts(@)]]
    /\ pc' = "flatten"
    /\ UNCHANGED <<earlier, workbook, days_in_month, weekend, config, staff_df, daily_demand,
                   extra_distributed, cycle_index, date_idx, available_staff,
                   day_assigned, night_assigned, min_day_today,
                   min_night_today, rules, schedule, warnings>>

\* lines 292-299 for one staff member: one entry per key of shifts, ascending
StaffEntries(sid) ==
    LET keys == SortedDates(DOMAIN staff_state[sid].shifts)
    IN [i \in 1..Len(keys) |->
          [date |-> keys[i],
           shift_type |-> staff_state[sid].shifts[keys[i]],
           staff_id |-> sid]]

RECURSIVE FlatEntries(_)
FlatEntries(sid) ==
    IF sid > Len(staff_df) THEN <<>>
    ELSE StaffEntries(sid) \o FlatEntries(sid + 1)

\* lines 290-299
Flatten ==
    /\ pc = "flatten"
    /\ schedule' = schedule \o FlatEntries(1)
    /\ pc' = "risks"
    /\ UNCHANGED <<earlier, workbook, days_in_month, weekend, config, staff_df, daily_demand,
                   extra_distributed, cycle_index, staff_state, date_idx,
                   available_staff, day_assigned, night_assigned,
                   min_day_today, min_night_today, rules, warnings>>

\* ------------------------------------------------------- _check_labor_risks
\* check 1, lines 380-387
RequestedOffViolations(sid, state) ==
    LET hit == SortedDates({d \in state.requested_off :
                              HasShift(state.shifts, d) /\ state.shifts[d] # "OFF"})
    IN [i \in 1..Len(hit) |->
          Warning("RED", "REQUESTED_OFF_VIOLATION", sid, hit[i])]

\* lines 390-397: the longest run of non-OFF entries over the sorted keys
RECURSIVE MaxFoundFrom(_, _, _, _, _)
MaxFoundFrom(keys, i, consecutive, max_found, shifts) ==
    IF i > Len(keys) THEN max_found
    ELSE IF shifts[keys[i]] # "OFF"
    THEN MaxFoundFrom(keys, i + 1, consecutive + 1,
                      Max(max_found, consecutive + 1), shifts)
    ELSE MaxFoundFrom(keys, i + 1, 0, max_found, shifts)

MaxFound(shifts) == MaxFoundFrom(SortedDates(DOMAIN shifts), 1, 0, 0, shifts)

\* variant: the thresholds are compared with >= instead of >
ConsecutiveWarningsAtThreshold(sid, state, th) ==
    IF MaxFound(state.shifts) >= th.consecutive_red
    THEN <<Warning("RED", "EXCESSIVE_CONSECUTIVE", sid, 0)>>
    ELSE IF MaxFound(state.shifts) >= th.consecutive_yellow
    THEN <<Warning("YELLOW", "HIGH_CONSECUTIVE", sid, 0)>>
    ELSE <<>>

\* check 2, lines 399-412
ConsecutiveWarnings(sid, state, th) ==
    IF MaxFound(state.shifts) > th.consecutive_red
    THEN <<Warning("RED", "EXCESSIVE_CONSECUTIVE", sid, 0)>>
    ELSE IF MaxFound(state.shifts) > th.consecutive_yellow
    THEN <<Warning("YELLOW", "HIGH_CONSECUTIVE", sid, 0)>>
    ELSE <<>>

\* check 3, lines 415-427: neighbours in the sorted list of worked dates
RestPairs(shifts) ==
    LET worked == SortedDates({d \in DOMAIN shifts : shifts[d] # "OFF"})
    IN SelectSeq([i \in 1..(Len(worked) - 1) |-> <<worked[i], worked[i + 1]>>],
                 LAMBDA p : /\ shifts[p[1]] = "NIGHT"
                            /\ shifts[p[2]] = "DAY"
                            /\ p[2] - p[1] = 1)

RestWarnings(sid, state) ==
    LET pairs == RestPairs(state.shifts)
    IN [i \in 1..Len(pairs) |->
          Warning("RED", "INSUFFICIENT_REST", sid, pairs[i][1])]

\* lines 430-436
CountShifts(shifts, shift_type) ==
    Cardinality({d \in DOMAIN shifts : shifts[d] = shift_type})

EstimatedOvertime(shifts, th) ==
    Max(0, CountShifts(shifts, "DAY") * th.day_hours
           + CountShifts(shifts, "NIGHT") * th.night_hours
           - th.month_hours)

\* variant: the thresholds are compared with >= instead of >
OvertimeWarningsAtThreshold(sid, state, th) ==
    IF EstimatedOvertime(state.shifts, th) >= th.overtime_red
    THEN <<Warning("RED", "EXCESSIVE_OVERTIME", sid, 0)>>
    ELSE IF EstimatedOvertime(state.shifts, th) >= th.overtime_yellow
    THEN <<Warning("YELLOW", "HIGH_OVERTIME", sid, 0)>>
    ELSE <<>>

\* check 4, lines 438-451
OvertimeWarnings(sid, state, th) ==
    IF EstimatedOvertime(state.shifts, th) > th.overtime_red
    THEN <<Warning("RED", "EXCESSIVE_OVERTIME", sid, 0)>>
    ELSE IF EstimatedOvertime(state.shifts, th) > th.overtime_yellow
    THEN <<Warning("YELLOW", "HIGH_OVERTIME", sid, 0)>>
    ELSE <<>>

\* variant: the date is not tested for being a weekend or holiday
WeekendWarningsAnyDate(sid, state) ==
    IF ~state.can_weekend_holiday
    THEN LET hit == SortedDates({d \in DOMAIN state.shifts :
                                   state.shifts[d] # "OFF"})
         IN [i \in 1..Len(hit) |->
               Warning("YELLOW", "WEEKEND_RESTRICTION", sid, hit[i])]
    ELSE <<>>

\* check 5, lines 454-462.  The loop follows the insertion order of the dict;
\* worked entries are inserted in ascending date order by phase 2
WeekendWarnings(sid, state) ==
    IF ~state.can_weekend_holiday
    THEN LET hit == SortedDates({d \in DOMAIN state.shifts :
                                   /\ state.shifts[d] # "OFF"
                                   /\ IsWeekendOrHoliday(d)})
         IN [i \in 1..Len(hit) |->
               Warning("YELLOW", "WEEKEND_RESTRICTION", sid, hit[i])]
    ELSE <<>>

\* lines 378-462 for one staff member
StaffRiskWarnings(sid, th) ==
    LET state == staff_state[sid]
    IN RequestedOffViolations(sid, state)
       \o ConsecutiveWarnings(sid, state, th)
       \o RestWarnings(sid, state)
       \o OvertimeWarnings(sid, state, th)
       \o WeekendWarnings(sid, state)

RECURSIVE RiskWarningsFrom(_, _)
RiskWarningsFrom(sid, th) ==
    IF sid > Len(staff_df) THEN <<>>
    ELSE StaffRiskWarnings(sid, th) \o RiskWarningsFrom(sid + 1, th)

\* line 465: if not self.warnings
NoWarnings(w) == w = <<>>

\* variant: ALL_CLEAR is appended whatever the list holds
WithAllClearAlways(w) == Append(w, Warning("GREEN", "ALL_CLEAR", 0, 0))

\* lines 464-471
WithAllClear(w) ==
    IF NoWarnings(w) THEN <<Warning("GREEN", "ALL_CLEAR", 0, 0)>> ELSE w

\* lines 367-376: the thresholds read from the rules file and the values
\* read from the config row, each with its default
Thresholds ==
    [consecutive_yellow |-> rules.consecutive_yellow,
     consecutive_red    |-> rules.consecutive_red,
     overtime_yellow    |-> rules.overtime_yellow,
     overtime_red       |-> rules.overtime_red,
     max_consecutive    |-> IF config.max_consecutive_workdays = KeyAbsent
                            THEN rules.consecutive_yellow
                            ELSE config.max_consecutive_workdays,
     day_hours          |-> config.standard_day_shift_hours,
     night_hours        |-> config.standard_night_shift_hours,
     month_hours        |-> rules.standard_month_hours]

\* _check_labor_risks, lines 362-471
CheckLaborRisks ==
    /\ pc = "risks"
    /\ warnings' = WithAllClear(warnings \o RiskWarningsFrom(1, Thresholds))
    /\ pc' = "done"
    /\ UNCHANGED <<earlier, workbook, days_in_month, weekend, config, staff_df, daily_demand,
                   extra_distributed, cycle_index, staff_state, date_idx,
                   available_staff, day_assigned, night_assigned,
                   min_day_today, min_night_today, rules, schedule>>

\* a further call of generate_schedule on the instance, the inputs unchanged:
\* the locals of lines 78-192 are new, self.schedule and self.warnings are
\* the attributes __init__ made (lines 40-41), which generate_schedule
\* nowhere assigns
GenerateAgain ==
    /\ pc = "done"
    /\ Len(earlier) < MaxCalls - 1
    /\ earlier' = Append(earlier, [schedule |-> schedule, warnings |-> warnings])
    /\ pc' = "capacity"
    /\ daily_demand' = <<>>
    /\ extra_distributed' = 0
    /\ cycle_index' = 0
    /\ staff_state' = <<>>
    /\ date_idx' = 0
    /\ available_staff' = <<>>
    /\ day_assigned' = <<>>
    /\ night_assigned' = <<>>
    /\ min_day_today' = 0
    /\ min_night_today' = 0
    /\ UNCHANGED <<workbook, days_in_month, weekend, config, staff_df, rules,
                   schedule, warnings>>

\* ---------------------------------------------------------------- the inputs
\* The inputs of a run are the calendar of the month, the config row and the
\* roster.  The reference input is a month without weekend/holiday dates,
\* one DAY and one NIGHT slot a day, no extra slots, no solo permission, and
\* staff who can work every shift, ask for MaxDesired days and request no
\* day off.  A specification draws every input within the bounds that
\* differs from the reference input in at most MaxDeviations fields.
B2N(b) == IF b THEN 1 ELSE 0

ReferenceConfig ==
    [min_staff_day |-> 1, min_staff_night |-> 1,
     variable_extra_slots_month |-> 0,
     allow_solo_day |-> FALSE, allow_solo_night |-> FALSE,
     max_consecutive_workdays |-> KeyAbsent,
     standard_day_shift_hours |-> DEFAULT_DAY_HOURS,
     standard_night_shift_hours |-> DEFAULT_NIGHT_HOURS]

\* a rules file without thresholds: every rules.get answers its default
ReferenceRules ==
    [consecutive_yellow |-> DEFAULT_CONSECUTIVE_YELLOW,
     consecutive_red |-> DEFAULT_CONSECUTIVE_RED,
     overtime_yellow |-> DEFAULT_OVERTIME_YELLOW,
     overtime_red |-> DEFAULT_OVERTIME_RED,
     standard_month_hours |-> DEFAULT_MONTH_HOURS]

ReferenceStaff ==
    [desired_days |-> MaxDesired, can_day |-> TRUE, can_night |-> TRUE,
     can_weekend_holiday |-> TRUE, requested_off |-> {}]

Configs ==
    [min_staff_day : 0..MaxMinStaff, min_staff_night : 0..MaxMinStaff,
     variable_extra_slots_month : 0..MaxExtra,
     allow_solo_day : BOOLEAN, allow_solo_night : BOOLEAN,
     max_consecutive_workdays : {KeyAbsent} \cup 1..(MaxDays - 1),
     standard_day_shift_hours : {DEFAULT_DAY_HOURS},
     standard_night_shift_hours : {DEFAULT_NIGHT_HOURS}]

\* rules files: the default thresholds, or thresholds a short month reaches
RulesChoices ==
    {[ReferenceRules EXCEPT
        !.consecutive_yellow = c[1], !.consecutive_red = c[2],
        !.overtime_yellow = o[1], !.overtime_red = o[2],
        !.standard_month_hours = o[3]] :
     c \in {<<DEFAULT_CONSECUTIVE_YELLOW, DEFAULT_CONSECUTIVE_RED>>, <<1, 2>>},
     o \in {<<DEFAULT_OVERTIME_YELLOW, DEFAULT_OVERTIME_RED, DEFAULT_MONTH_HOURS>>,
            <<2, 12, 8>>}}

RulesDeviations(r) ==
    B2N(r.consecutive_yellow # ReferenceRules.consecutive_yellow)
    + B2N(r.overtime_yellow # ReferenceRules.overtime_yellow)

ConfigDeviations(c) ==
    B2N(c.min_staff_day # ReferenceConfig.min_staff_day)
    + B2N(c.min_staff_night # ReferenceConfig.min_staff_night)
    + B2N(c.variable_extra_slots_month # 0)
    + B2N(c.allow_solo_day) + B2N(c.allow_solo_night)
    + B2N(c.max_consecutive_workdays # KeyAbsent)

StaffDeviations(r) ==
    B2N(r.desired_days # ReferenceStaff.desired_days)
    + B2N(~r.can_day) + B2N(~r.can_night) + B2N(~r.can_weekend_holiday)
    + Cardinality(r.requested_off)

\* the subsets of S with at most k elements
RECURSIVE SubsetsUpTo(_, _)
SubsetsUpTo(S, k) ==
    IF k <= 0 THEN {{}}
    ELSE {{}} \cup UNION {{T \cup {x} : T \in SubsetsUpTo({y \in S : y > x}, k - 1)} :
                          x \in S}

\* the attributes of a fresh instance (__init__, lines 35-41), the cells of
\* the workbook and the locals of generate_schedule before its first step
Loaded(n, wk, cfg, rls, roster) ==
    /\ days_in_month = n
    /\ weekend = wk
    /\ config = cfg
    /\ staff_df = roster
    /\ daily_demand = <<>>
    /\ extra_distributed = 0
    /\ cycle_index = 0
    /\ staff_state = <<>>
    /\ date_idx = 0
    /\ available_staff = <<>>
    /\ day_assigned = <<>>
    /\ night_assigned = <<>>
    /\ min_day_today = 0
    /\ min_night_today = 0
    /\ rules = rls
    /\ schedule = <<>>
    /\ warnings = <<>>
    /\ earlier = <<>>

\* required_staff_cols, lines 62-63
RequiredStaffCols ==
    {"staff_id", "name", "desired_days", "can_day", "can_night",
     "can_weekend_holiday"}

\* variant: month is not among the required keys
RequiredConfigKeysWithoutMonth == {"min_staff_day", "min_staff_night"}

\* required_config_keys, line 67
RequiredConfigKeys == {"month", "min_staff_day", "min_staff_night"}

\* _validate_input, lines 60-71: no ValueError is raised.  blank_keys are
\* the keys of the config row whose cell is empty (pd.isna)
ValidInput(wb) ==
    /\ \A col \in RequiredStaffCols : col \in wb.staff_columns
    /\ \A key \in RequiredConfigKeys :
         key \in wb.config_keys /\ key \notin wb.blank_keys

\* a workbook with every required column and key
CompleteWorkbook ==
    [staff_columns |-> RequiredStaffCols \cup {"requested_off_dates"},
     config_keys |-> {"month", "min_staff_day", "min_staff_night",
                      "variable_extra_slots_month"},
     blank_keys |-> {}]

\* the state at the entry of generate_schedule on a fresh instance
\* (__init__, lines 35-41, and a load_input that raised nothing)
Start(n, wk, cfg, rls, roster) ==
    /\ pc = "capacity"
    /\ workbook = CompleteWorkbook
    /\ Loaded(n, wk, cfg, rls, roster)

\* load_input, lines 43-58, as main calls it (687-702): a ValueError of
\* _validate_input is re-raised at 57-58 and main returns 1 without calling
\* generate_schedule
LoadInput ==
    /\ pc = "load"
    /\ pc' = IF ValidInput(workbook) THEN "capacity" ELSE "failed"
    /\ UNCHANGED <<earlier, workbook, days_in_month, weekend, config, staff_df,
                   daily_demand, extra_distributed, cycle_index, staff_state,
                   date_idx, available_staff, day_assigned, night_assigned,
                   min_day_today, min_night_today, rules, schedule, warnings>>

\* the starts whose roster extends `roster' by len rows with at most k
\* deviations in all
RECURSIVE StartWithRoster(_, _, _, _, _, _, _)
StartWithRoster(n, wk, cfg, rls, roster, len, k) ==
    IF len = 0 THEN Start(n, wk, cfg, rls, roster)
    ELSE \E desired \in 0..MaxDesired, cd \in BOOLEAN, cn \in BOOLEAN,
            cw \in BOOLEAN :
           LET flags == [desired_days |-> desired, can_day |-> cd,
                         can_night |-> cn, can_weekend_holiday |-> cw,
                         requested_off |-> {}]
           IN /\ StaffDeviations(flags) <= k
              /\ \E off \in SubsetsUpTo(0..(n + 1), k - StaffDeviations(flags)) :
                    LET r == [flags EXCEPT !.requested_off = off]
                    IN StartWithRoster(n, wk, cfg, rls, Append(roster, r),
                                       len - 1, k - StaffDeviations(r))

Init ==
    \E n \in 1..MaxDays, len \in 1..MaxStaff :
      \E wk \in SUBSET (1..n), cfg \in Configs, rls \in RulesChoices :
        LET used == Cardinality(wk) + ConfigDeviations(cfg) + RulesDeviations(rls)
        IN /\ used <= MaxDeviations
           /\ StartWithRoster(n, wk, cfg, rls, <<>>, len, MaxDeviations - used)

Next ==
    \/ CapacityCheck
    \/ DistributeWeekend
    \/ DistributeWeekday
    \/ InitStaffState
    \/ Phase1
    \/ BeginDate
    \/ FillDay
    \/ FillNight
    \/ ShortageWarnings
    \/ CloseMatrix
    \/ Flatten
    \/ CheckLaborRisks

Spec == Init /\ [][Next]_vars

\* The distribution of the extra slots alone, over every split of a month
\* into weekend/holiday and weekday dates.
DistInit ==
    \E n \in 0..MaxDistDays, v \in 0..MaxDistExtra :
      \E wk \in SUBSET (1..n) :
        Start(n, wk, [ReferenceConfig EXCEPT !.variable_extra_slots_month = v],
              ReferenceRules, <<ReferenceStaff>>)

\* Whole runs over short months and small rosters, the input differing from
\* the reference input in at most MaxWideDeviations fields.
WideInit ==
    \E n \in 1..MaxWideDays, len \in 1..MaxWideStaff :
      \E wk \in SUBSET (1..n), cfg \in Configs, rls \in RulesChoices :
        LET used == Cardinality(wk) + ConfigDeviations(cfg) + RulesDeviations(rls)
        IN /\ used <= MaxWideDeviations
           /\ StartWithRoster(n, wk, cfg, rls, <<>>, len, MaxWideDeviations - used)

WideSpec == WideInit /\ [][Next]_vars

\* Whole runs of the sample roster: six staff who can work DAY and NIGHT,
\* request no day off and each ask for at least as many days as the month
\* has, three DAY and two NIGHT slots a day, no extra slots.  A deviation is a
\* weekend/holiday date, a staff member asking for more days than the month
\* has, a staff member without can_weekend_holiday, or a solo permission.
SampleConfig(solo_day, solo_night) ==
    [ReferenceConfig EXCEPT !.min_staff_day = SAMPLE_MIN_STAFF_DAY,
                            !.min_staff_night = SAMPLE_MIN_STAFF_NIGHT,
                            !.allow_solo_day = solo_day,
                            !.allow_solo_night = solo_night]

SampleRoster(n, more, surplus, restricted) ==
    [sid \in 1..SAMPLE_STAFF |->
       [ReferenceStaff EXCEPT
          !.desired_days = IF sid \in more THEN n + surplus ELSE n,
          !.can_weekend_holiday = sid \notin restricted]]

SampleInit ==
    \E n \in 1..MaxSampleDays, surplus \in 1..MaxSampleSurplus :
      \E wk \in SubsetsUpTo(1..n, MaxSampleDeviations) :
        \E more \in SubsetsUpTo(1..SAMPLE_STAFF,
                                MaxSampleDeviations - Cardinality(wk)) :
          \E restricted \in SubsetsUpTo(1..SAMPLE_STAFF,
                 MaxSampleDeviations - Cardinality(wk) - Cardinality(more)) :
            \E solo_day \in BOOLEAN, solo_night \in BOOLEAN :
              /\ Cardinality(wk) + Cardinality(more) + Cardinality(restricted)
                   + B2N(solo_day) + B2N(solo_night) <= MaxSampleDeviations
              /\ Start(n, wk, SampleConfig(solo_day, solo_night), ReferenceRules,
                       SampleRoster(n, more, surplus, restricted))

\* without extra slots the distribution loop is left at its first test
\* (line 132) and the weekday placement is never reached
SampleNext ==
    \/ CapacityCheck
    \/ DistributeWeekend
    \/ InitStaffState
    \/ Phase1
    \/ BeginDate
    \/ FillDay
    \/ FillNight
    \/ ShortageWarnings
    \/ CloseMatrix
    \/ Flatten
    \/ CheckLaborRisks

SampleSpec == SampleInit /\ [][SampleNext]_vars

\* main from the call of load_input on: workbooks with any of the required
\* staff columns and config keys missing or blank, the cells being those of
\* the reference input with any number of extra slots.
Workbooks ==
    {[staff_columns |-> cols, config_keys |-> keys, blank_keys |-> blank] :
       cols \in SUBSET RequiredStaffCols,
       keys \in SUBSET {"month", "min_staff_day", "min_staff_night"},
       blank \in SUBSET {"month", "min_staff_day", "min_staff_night"}}

LoadInit ==
    \E wb \in Workbooks, n \in 1..MaxWideDays, v \in 0..MaxExtra :
      /\ wb.blank_keys \subseteq wb.config_keys
      /\ pc = "load"
      /\ workbook = wb
      /\ Loaded(n, {}, [ReferenceConfig EXCEPT !.variable_extra_slots_month = v],
                ReferenceRules, <<ReferenceStaff>>)

LoadNext == LoadInput \/ Next

LoadSpec == LoadInit /\ [][LoadNext]_vars

\* Whole runs of a roster of two on short months, one DAY or NIGHT slot a
\* day, where a staff member may ask for more days than the weekend penalty
\* of line 205 is large: desired_days is read at line 168 without any range
\* test.
LargeDesired == PENALTY + 2

PenaltyRosters ==
    {<<[ReferenceStaff EXCEPT !.desired_days = d1, !.can_weekend_holiday = w1],
       [ReferenceStaff EXCEPT !.desired_days = d2, !.can_weekend_holiday = w2]>> :
       d1 \in {1, LargeDesired}, d2 \in {1, LargeDesired},
       w1 \in BOOLEAN, w2 \in BOOLEAN}

PenaltyInit ==
    \E n \in 1..MaxWideDays, v \in 0..MaxExtra, roster \in PenaltyRosters :
      \E wk \in SUBSET (1..n), md \in 0..MaxMinStaff, mn \in 0..MaxMinStaff :
        Start(n, wk,
              [ReferenceConfig EXCEPT !.min_staff_day = md,
                                      !.min_staff_night = mn,
                                      !.variable_extra_slots_month = v],
              ReferenceRules, roster)

PenaltySpec == PenaltyInit /\ [][Next]_vars

\* Whole runs over short months and small rosters, generate_schedule being
\* called up to MaxCalls times on the instance.
RerunNext == Next \/ GenerateAgain

RerunSpec == WideInit /\ [][RerunNext]_vars

DistNext ==
    \/ CapacityCheck
    \/ DistributeWeekend
    \/ DistributeWeekday

DistSpec == DistInit /\ [][DistNext]_vars

\* the loop is sequential code of one thread: a step that can be taken is taken
DistLiveSpec == DistInit /\ [][DistNext]_vars /\ WF_vars(DistNext)


\* ================================================================ properties
AfterPhase1 == {"begin_date", "fill_day", "fill_night", "shortage", "close",
                "flatten", "risks", "done"}
Flattened == {"risks", "done"}

\* the staff whose entry of date d is the given shift type
StaffOn(d, shift_type) ==
    {sid \in DOMAIN staff_state : GetShift(staff_state[sid].shifts, d) = shift_type}

WarningCodes == {warnings[i].code : i \in 1..Len(warnings)}

HasWarning(code, d) ==
    \E i \in 1..Len(warnings) : warnings[i].code = code /\ warnings[i].date = d

\* C1: once the schedule list is built it holds staff_count x days_in_month
\* entries, every (staff, date of the month) pair is in exactly one entry and
\* every entry's shift type is DAY, NIGHT or OFF.
C1_ScheduleIsFullMatrix ==
    pc \in Flattened =>
      /\ Len(schedule) = Len(staff_df) * days_in_month
      /\ \A sid \in StaffIds, d \in Dates :
           Cardinality({i \in 1..Len(schedule) :
                          schedule[i].staff_id = sid /\ schedule[i].date = d}) = 1
      /\ \A i \in 1..Len(schedule) :
           schedule[i].shift_type \in {"DAY", "NIGHT", "OFF"}

\* C1 witness: a finished run of two staff, one of whom requested a date
\* outside the month and works on some date.
C1_Witness ==
    /\ pc = "done"
    /\ Len(staff_df) = 2
    /\ \E sid \in StaffIds :
         /\ ~(staff_df[sid].requested_off \subseteq Dates)
         /\ staff_state[sid].assigned_days > 0

\* C2: from phase 1 on, every date of the month a staff member requested off
\* is OFF in the matrix, it is OFF in the schedule list, and no
\* REQUESTED_OFF_VIOLATION warning is ever in the warning list.
C2_RequestedOffStaysOff ==
    /\ pc \in AfterPhase1 =>
         \A sid \in StaffIds, d \in Dates :
           d \in staff_df[sid].requested_off =>
             GetShift(staff_state[sid].shifts, d) = "OFF"
    /\ pc \in Flattened =>
         \A i \in 1..Len(schedule) :
           schedule[i].date \in staff_df[schedule[i].staff_id].requested_off =>
             schedule[i].shift_type = "OFF"
    /\ "REQUESTED_OFF_VIOLATION" \notin WarningCodes

\* C2 witness: a finished run in which a date went short of DAY staff while a
\* staff member who requested it off could work days and had days left.
C2_Witness ==
    /\ pc = "done"
    /\ \E sid \in StaffIds, d \in Dates :
         /\ d \in staff_df[sid].requested_off
         /\ staff_state[sid].can_day
         /\ staff_state[sid].assigned_days < staff_state[sid].desired_days
         /\ HasWarning("UNDERSTAFFED_DAY", d)

\* C3: in every state no staff member has NIGHT on a date and DAY on the next
\* one, the scan of the risk evaluator finds no such pair, and no
\* INSUFFICIENT_REST warning is ever in the warning list.
C3_NoDayAfterNight ==
    /\ \A sid \in DOMAIN staff_state, d \in Dates :
         ~(/\ GetShift(staff_state[sid].shifts, d) = "NIGHT"
           /\ GetShift(staff_state[sid].shifts, d + 1) = "DAY")
    /\ \A sid \in DOMAIN staff_state : RestPairs(staff_state[sid].shifts) = <<>>
    /\ "INSUFFICIENT_REST" \notin WarningCodes

\* C3 witness: the DAY loop of a date ended short of its target although a
\* candidate with days left was on the list: one who worked NIGHT the day
\* before.
C3_Witness ==
    /\ pc = "fill_night"
    /\ ~SlotsFilled(day_assigned, min_day_today)
    /\ \E sid \in Range(available_staff) :
         /\ DayCandidate(staff_state[sid])
         /\ GetShift(staff_state[sid].shifts, date_idx - 1) = "NIGHT"
         /\ GetShift(staff_state[sid].shifts, date_idx) = "NONE"

\* C4 (as claimed): at the end of a run no staff member has a run of
\* consecutive worked dates longer than the configured
\* max_consecutive_workdays.
C4_ConsecutiveRunCapped ==
    (pc = "done" /\ config.max_consecutive_workdays # KeyAbsent) =>
      \A sid \in StaffIds :
        MaxFound(staff_state[sid].shifts) <= config.max_consecutive_workdays

\* C5: in every state assigned_days is at most desired_days, and so is the
\* number of DAY and NIGHT entries of the staff member.
C5_AssignedWithinDesired ==
    \A sid \in DOMAIN staff_state :
      /\ staff_state[sid].assigned_days <= staff_state[sid].desired_days
      /\ CountShifts(staff_state[sid].shifts, "DAY")
         + CountShifts(staff_state[sid].shifts, "NIGHT")
           <= staff_df[sid].desired_days

\* C5 witness: the DAY loop of a date ended short of its target and passed
\* over a staff member who can work days and already has all desired days.
C5_Witness ==
    /\ pc = "fill_night"
    /\ ~SlotsFilled(day_assigned, min_day_today)
    /\ \E sid \in Range(available_staff) :
         /\ staff_state[sid].can_day
         /\ staff_state[sid].desired_days > 0
         /\ staff_state[sid].assigned_days = staff_state[sid].desired_days
         /\ GetShift(staff_state[sid].shifts, date_idx) = "NONE"

\* C6: on every date the number of staff with DAY is at most
\* min_staff_day + floor(extra / 2) and the number with NIGHT at most
\* min_staff_night + (extra - floor(extra / 2)), extra being the date's
\* share of the extra slots.
C6_TargetsNotExceeded ==
    pc \in AfterPhase1 =>
      \A d \in Dates :
        LET extra == daily_demand[d] IN
        /\ Cardinality(StaffOn(d, "DAY")) <= config.min_staff_day + (extra \div 2)
        /\ Cardinality(StaffOn(d, "NIGHT"))
             <= config.min_staff_night + (extra - (extra \div 2))

\* C6 witness: on a date with extra slots the DAY loop stopped at its target
\* while a further candidate who passes every DAY check was on the list.
C6_Witness ==
    /\ pc = "fill_night"
    /\ daily_demand[date_idx] > 0
    /\ Len(day_assigned) = min_day_today
    /\ \E sid \in Range(available_staff) \ Range(day_assigned) :
         /\ DayCandidate(staff_state[sid])
         /\ CanAssignShift(staff_state[sid], date_idx, "DAY")

\* what the run found, read from the inputs and the matrix and not from the
\* warning list
ShortOn(d) ==
    \/ Cardinality(StaffOn(d, "DAY"))
         < config.min_staff_day + (daily_demand[d] \div 2)
    \/ Cardinality(StaffOn(d, "NIGHT"))
         < config.min_staff_night + (daily_demand[d] - (daily_demand[d] \div 2))

RunFoundNothing ==
    /\ SupplySlots >= TotalSlotsNeeded
    /\ \A d \in Dates : ~ShortOn(d)
    /\ RiskWarningsFrom(1, Thresholds) = <<>>

\* C7: at the end of a run on a fresh instance the warning list holds a GREEN
\* ALL_CLEAR entry exactly when the run produced no capacity, allocation-time
\* or compliance warning; it is then the only entry, and otherwise the list
\* is not empty and holds no GREEN entry.
C7_AllClearIffNothingFound ==
    pc = "done" =>
      IF RunFoundNothing
      THEN warnings = <<Warning("GREEN", "ALL_CLEAR", 0, 0)>>
      ELSE /\ warnings # <<>>
           /\ \A i \in 1..Len(warnings) :
                warnings[i].severity # "GREEN" /\ warnings[i].code # "ALL_CLEAR"

\* C7 witness: a finished run of two staff over a month with a weekend date
\* whose only warning is ALL_CLEAR.
C7_Witness ==
    /\ pc = "done"
    /\ Len(staff_df) = 2
    /\ weekend # {}
    /\ warnings = <<Warning("GREEN", "ALL_CLEAR", 0, 0)>>

\* C8: while the extra slots are distributed over a month with a
\* weekend/holiday date, a weekday date holds an extra slot only if every
\* weekend/holiday date holds at least one.
C8_WeekendBeforeWeekday ==
    (pc # "capacity" /\ WeekendDates # <<>>) =>
      ((\E d \in Dates \ weekend : daily_demand[d] > 0)
         => \A w \in Dates \cap weekend : daily_demand[w] >= 1)

\* C8 witness: a month with two weekend/holiday dates in which a weekday date
\* has received an extra slot.
C8_Witness ==
    /\ pc # "capacity"
    /\ Len(WeekendDates) >= 2
    /\ \E d \in Dates \ weekend : daily_demand[d] > 0

DistributedSum == SumFun(daily_demand, Dates)

\* C9 (as claimed): over a month with at least one date the distributed
\* extra slots sum to variable_extra_slots_month.
C9_SumIsExtraOnAnyMonth ==
    (pc = "init_staff" /\ days_in_month >= 1) =>
      DistributedSum = config.variable_extra_slots_month

\* C9 (amended): the distributed slots never sum to more than
\* variable_extra_slots_month; at the end of the loop they sum to exactly
\* that when the month has a weekday date, and to the smaller of it and
\* twice the number of weekend/holiday dates when it has none.
C9_SumIsExtraWithWeekdays ==
    /\ pc \in {"dist_weekend", "dist_weekday", "init_staff"} =>
         DistributedSum <= config.variable_extra_slots_month
    /\ pc = "init_staff" =>
         IF WeekdayDates # <<>>
         THEN DistributedSum = config.variable_extra_slots_month
         ELSE DistributedSum = IF config.variable_extra_slots_month
                                    <= 2 * Len(WeekendDates)
                               THEN config.variable_extra_slots_month
                               ELSE 2 * Len(WeekendDates)

\* C9 witness: the loop ended over a month of weekend/holiday dates only
\* with slots left over.
C9_Witness ==
    /\ pc = "init_staff"
    /\ WeekdayDates = <<>>
    /\ Len(WeekendDates) >= 2
    /\ DistributedSum < config.variable_extra_slots_month

\* C10 (as claimed): over a month with weekday dates no weekend/holiday date
\* ends with more than two extra slots.
C10_WeekendAtMostTwo ==
    (pc = "init_staff" /\ WeekdayDates # <<>>) =>
      \A w \in Dates \cap weekend : daily_demand[w] <= 2


\* C11: the distribution loop terminates: from every month, every split of its
\* dates into weekend/holiday and weekday dates (either or both empty) and
\* every number of extra slots, the statement after the loop is reached.
C11_DistributionTerminates == <>(pc = "init_staff")

\* C11 witness: the loop ended over a month without any date, with slots
\* asked for and none distributed.
C11_Witness ==
    /\ pc = "init_staff"
    /\ WeekendDates = <<>> /\ WeekdayDates = <<>>
    /\ config.variable_extra_slots_month > 0
    /\ extra_distributed = 0

\* the entries of the warning list with a given code and date
WarningsOf(code, d) ==
    {i \in 1..Len(warnings) : warnings[i].code = code /\ warnings[i].date = d}

NoneDesired == \A sid \in StaffIds : staff_df[sid].desired_days = 0

\* C12: at the end of a run in which every staff member's desired_days is 0,
\* every schedule entry is OFF, every date with a positive DAY target has a
\* RED UNDERSTAFFED_DAY warning, every date with a positive NIGHT target has
\* a RED UNDERSTAFFED_NIGHT warning, and there is no SOLO_SHIFT warning,
\* whatever the allow_solo flags are.
C12_NoneDesiredAllOff ==
    (pc = "done" /\ NoneDesired) =>
      /\ \A i \in 1..Len(schedule) : schedule[i].shift_type = "OFF"
      /\ \A d \in Dates :
           /\ config.min_staff_day + (daily_demand[d] \div 2) > 0 =>
                \E i \in WarningsOf("UNDERSTAFFED_DAY", d) :
                  warnings[i].severity = "RED"
           /\ config.min_staff_night
                + (daily_demand[d] - (daily_demand[d] \div 2)) > 0 =>
                \E i \in WarningsOf("UNDERSTAFFED_NIGHT", d) :
                  warnings[i].severity = "RED"
           /\ WarningsOf("SOLO_SHIFT_DAY", d) = {}
           /\ WarningsOf("SOLO_SHIFT_NIGHT", d) = {}

\* C12 witness: a finished run with nobody asking for a day, solo day shifts
\* allowed and a DAY slot to fill on the first date.
C12_Witness ==
    /\ pc = "done"
    /\ NoneDesired
    /\ config.allow_solo_day
    /\ config.min_staff_day > 0
    /\ WarningsOf("UNDERSTAFFED_DAY", 1) # {}


\* the precondition of the sample scenario
IsSampleInput ==
    /\ Len(staff_df) = SAMPLE_STAFF
    /\ config.min_staff_day = SAMPLE_MIN_STAFF_DAY
    /\ config.min_staff_night = SAMPLE_MIN_STAFF_NIGHT
    /\ config.variable_extra_slots_month = 0
    /\ \A sid \in StaffIds :
         /\ staff_df[sid].can_day /\ staff_df[sid].can_night
         /\ staff_df[sid].desired_days >= days_in_month
         /\ staff_df[sid].requested_off = {}

\* C13: on the sample scenario no UNDERSTAFFED_DAY and no UNDERSTAFFED_NIGHT
\* warning is ever in the warning list, and at the end of the run every date
\* has exactly three staff on DAY and two on NIGHT.
C13_SampleFullyStaffed ==
    IsSampleInput =>
      /\ "UNDERSTAFFED_DAY" \notin WarningCodes
      /\ "UNDERSTAFFED_NIGHT" \notin WarningCodes
      /\ pc = "done" =>
           \A d \in Dates :
             /\ Cardinality(StaffOn(d, "DAY")) = SAMPLE_MIN_STAFF_DAY
             /\ Cardinality(StaffOn(d, "NIGHT")) = SAMPLE_MIN_STAFF_NIGHT

\* C13 witness: a finished sample run over a month of several dates in
\* which somebody who worked NIGHT was off the next date.
C13_Witness ==
    /\ pc = "done"
    /\ IsSampleInput
    /\ days_in_month >= 2
    /\ \E sid \in StaffIds, d \in Dates :
         /\ GetShift(staff_state[sid].shifts, d) = "NIGHT"
         /\ GetShift(staff_state[sid].shifts, d + 1) = "OFF"


\* the entries of the warning list with a given code, staff member and
\* severity
StaffWarnings(code, sid, sev) ==
    {i \in 1..Len(warnings) :
       /\ warnings[i].code = code
       /\ warnings[i].staff = sid
       /\ warnings[i].severity = sev}

\* the entries with a given code and staff member, of any severity
StaffWarningsAny(code, sid) ==
    {i \in 1..Len(warnings) : warnings[i].code = code /\ warnings[i].staff = sid}

Worked(sid, d) == GetShift(staff_state[sid].shifts, d) \in {"DAY", "NIGHT"}

\* the longest run of consecutive worked dates of a staff member in the
\* matrix, read off the matrix itself
LongestRun(sid) ==
    LET runs == {k \in 1..days_in_month :
                   \E d \in 1..(days_in_month - k + 1) :
                     \A e \in d..(d + k - 1) : Worked(sid, e)}
    IN IF runs = {} THEN 0 ELSE CHOOSE k \in runs : \A j \in runs : j <= k

\* C14: at the end of a run, for every staff member with longest run M:
\* M > red gives exactly one RED EXCESSIVE_CONSECUTIVE and no HIGH_CONSECUTIVE,
\* yellow < M <= red exactly one YELLOW HIGH_CONSECUTIVE and no
\* EXCESSIVE_CONSECUTIVE, M <= yellow neither (yellow <= red being the
\* thresholds of the rules).
C14_ConsecutiveWarningByThreshold ==
    pc = "done" =>
      \A sid \in StaffIds :
        LET M == LongestRun(sid)
            nRed == Cardinality(StaffWarnings("EXCESSIVE_CONSECUTIVE", sid, "RED"))
            nYellow == Cardinality(StaffWarnings("HIGH_CONSECUTIVE", sid, "YELLOW"))
        IN /\ Cardinality(StaffWarningsAny("EXCESSIVE_CONSECUTIVE", sid)) = nRed
           /\ Cardinality(StaffWarningsAny("HIGH_CONSECUTIVE", sid)) = nYellow
           /\ M > rules.consecutive_red => (nRed = 1 /\ nYellow = 0)
           /\ (rules.consecutive_yellow < M /\ M <= rules.consecutive_red)
                => (nRed = 0 /\ nYellow = 1)
           /\ M <= rules.consecutive_yellow => (nRed = 0 /\ nYellow = 0)

\* C14 witness: a finished run with a staff member whose longest run is one
\* more than yellow and equal to red, and who has a HIGH_CONSECUTIVE warning.
C14_Witness ==
    /\ pc = "done"
    /\ \E sid \in StaffIds :
         /\ LongestRun(sid) = rules.consecutive_yellow + 1
         /\ LongestRun(sid) = rules.consecutive_red
         /\ StaffWarnings("HIGH_CONSECUTIVE", sid, "YELLOW") # {}


\* C15 (as claimed): at the end of a run whose config row sets
\* max_consecutive_workdays to N, every staff member with N + 1 consecutive
\* worked dates has a HIGH_CONSECUTIVE or an EXCESSIVE_CONSECUTIVE warning.
C15_ConfiguredLimitWarned ==
    (pc = "done" /\ config.max_consecutive_workdays # KeyAbsent) =>
      \A sid \in StaffIds :
        LongestRun(sid) >= config.max_consecutive_workdays + 1 =>
          \/ StaffWarningsAny("HIGH_CONSECUTIVE", sid) # {}
          \/ StaffWarningsAny("EXCESSIVE_CONSECUTIVE", sid) # {}


\* the entries of the warning list with a given code, date and severity
WarningsOfSeverity(code, d, sev) ==
    {i \in WarningsOf(code, d) : warnings[i].severity = sev}

\* what the shortage step owes a date for one shift kind, given the number a
\* of staff on that shift, the target t and the solo permission
ShortageAsClaimed(kind, d, a, t, allow_solo) ==
    LET solo == WarningsOf("SOLO_SHIFT_" \o kind, d)
        under == WarningsOf("UNDERSTAFFED_" \o kind, d)
    IN IF a >= t
       THEN solo = {} /\ under = {}
       ELSE IF a = 1 /\ allow_solo
       THEN /\ Cardinality(solo) = 1
            /\ solo = WarningsOfSeverity("SOLO_SHIFT_" \o kind, d, "YELLOW")
            /\ under = {}
       ELSE /\ Cardinality(under) = 1
            /\ under = WarningsOfSeverity("UNDERSTAFFED_" \o kind, d, "RED")
            /\ solo = {}

WarningsCoded(code) == {i \in 1..Len(warnings) : warnings[i].code = code}

\* C17: once the capacity check has run, the warning list holds exactly one
\* RED INSUFFICIENT_CAPACITY_BASE and no INSUFFICIENT_CAPACITY_PEAK when
\* supply < base, exactly one YELLOW INSUFFICIENT_CAPACITY_PEAK and no
\* INSUFFICIENT_CAPACITY_BASE when base <= supply < total, and neither when
\* supply >= total; and the run still ends with the full schedule.
C17_CapacityWarningByCase ==
    LET base == (config.min_staff_day + config.min_staff_night) * days_in_month
        total == base + config.variable_extra_slots_month
        supply == SumSeq([i \in 1..Len(staff_df) |-> staff_df[i].desired_days])
        nBase == Cardinality(WarningsCoded("INSUFFICIENT_CAPACITY_BASE"))
        nPeak == Cardinality(WarningsCoded("INSUFFICIENT_CAPACITY_PEAK"))
    IN /\ pc # "capacity" =>
            /\ \A i \in WarningsCoded("INSUFFICIENT_CAPACITY_BASE") :
                 warnings[i].severity = "RED"
            /\ \A i \in WarningsCoded("INSUFFICIENT_CAPACITY_PEAK") :
                 warnings[i].severity = "YELLOW"
            /\ supply < base => (nBase = 1 /\ nPeak = 0)
            /\ (base <= supply /\ supply < total) => (nBase = 0 /\ nPeak = 1)
            /\ supply >= total => (nBase = 0 /\ nPeak = 0)
       /\ pc = "done" => Len(schedule) = Len(staff_df) * days_in_month

\* C17 witness: a finished run that reported INSUFFICIENT_CAPACITY_BASE and
\* still assigned shifts.
C17_Witness ==
    /\ pc = "done"
    /\ WarningsCoded("INSUFFICIENT_CAPACITY_BASE") # {}
    /\ \E sid \in StaffIds : staff_state[sid].assigned_days > 0


\* C18: when a required staff column or a required config key is missing
\* (or the key's cell is blank) the run never gets past load_input: the
\* schedule list and the warning list stay empty and no step of
\* generate_schedule is taken.
C18_MissingInputNoRun ==
    (\/ \E col \in {"staff_id", "name", "desired_days", "can_day", "can_night",
                     "can_weekend_holiday"} : col \notin workbook.staff_columns
     \/ \E key \in {"month", "min_staff_day", "min_staff_night"} :
          key \notin workbook.config_keys \/ key \in workbook.blank_keys)
    => /\ pc \in {"load", "failed"}
       /\ schedule = <<>>
       /\ warnings = <<>>
       /\ staff_state = <<>>
       /\ daily_demand = <<>>

\* C18 witness: load_input failed on a workbook whose only defect is the
\* missing month key.
C18_Witness ==
    /\ pc = "failed"
    /\ workbook.staff_columns = RequiredStaffCols
    /\ workbook.config_keys = {"min_staff_day", "min_staff_night"}
    /\ workbook.blank_keys = {}


\* the WEEKEND_RESTRICTION entries of the warning list for a staff member
\* and a date
RestrictionWarnings(sid, d) ==
    {i \in 1..Len(warnings) :
       /\ warnings[i].code = "WEEKEND_RESTRICTION"
       /\ warnings[i].staff = sid
       /\ warnings[i].date = d}

\* C19: at the end of a run the warning list holds exactly one
\* WEEKEND_RESTRICTION entry, a YELLOW one, for every staff member and date
\* such that the staff member lacks can_weekend_holiday, the date is a
\* weekend or holiday and the final shift is DAY or NIGHT, and none for any
\* other staff member and date.
C19_WeekendRestrictionPerPair ==
    pc = "done" =>
      /\ \A i \in WarningsCoded("WEEKEND_RESTRICTION") :
           /\ warnings[i].severity = "YELLOW"
           /\ warnings[i].staff \in StaffIds
           /\ warnings[i].date \in Dates
      /\ \A sid \in StaffIds, d \in Dates :
           Cardinality(RestrictionWarnings(sid, d)) =
             IF /\ ~staff_df[sid].can_weekend_holiday
                /\ d \in weekend
                /\ Worked(sid, d)
             THEN 1 ELSE 0

\* C19 witness: a finished run in which a staff member without
\* can_weekend_holiday worked a weekend/holiday date and a weekday date.
C19_Witness ==
    /\ pc = "done"
    /\ \E sid \in StaffIds, d \in Dates, e \in Dates :
         /\ ~staff_df[sid].can_weekend_holiday
         /\ d \in weekend /\ Worked(sid, d)
         /\ e \notin weekend /\ Worked(sid, e)
         /\ RestrictionWarnings(sid, d) # {}


\* the number of entries of the schedule list of a staff member with a
\* given shift type
ScheduledShifts(sid, shift_type) ==
    Cardinality({i \in 1..Len(schedule) :
                   /\ schedule[i].staff_id = sid
                   /\ schedule[i].shift_type = shift_type})

\* the overtime of a staff member as the claim computes it
OvertimeAsClaimed(sid) ==
    LET total_hours ==
          ScheduledShifts(sid, "DAY") * config.standard_day_shift_hours
          + ScheduledShifts(sid, "NIGHT") * config.standard_night_shift_hours
    IN IF total_hours - rules.standard_month_hours > 0
       THEN total_hours - rules.standard_month_hours ELSE 0

\* C20: at the end of a run, for every staff member with estimated overtime
\* H: H > red gives exactly one RED EXCESSIVE_OVERTIME and no HIGH_OVERTIME,
\* yellow < H <= red exactly one YELLOW HIGH_OVERTIME and no
\* EXCESSIVE_OVERTIME, H <= yellow neither.
C20_OvertimeWarningByThreshold ==
    pc = "done" =>
      \A sid \in StaffIds :
        LET H == OvertimeAsClaimed(sid)
            nRed == Cardinality(StaffWarnings("EXCESSIVE_OVERTIME", sid, "RED"))
            nYellow == Cardinality(StaffWarnings("HIGH_OVERTIME", sid, "YELLOW"))
        IN /\ Cardinality(StaffWarningsAny("EXCESSIVE_OVERTIME", sid)) = nRed
           /\ Cardinality(StaffWarningsAny("HIGH_OVERTIME", sid)) = nYellow
           /\ H > rules.overtime_red => (nRed = 1 /\ nYellow = 0)
           /\ (rules.overtime_yellow < H /\ H <= rules.overtime_red)
                => (nRed = 0 /\ nYellow = 1)
           /\ H <= rules.overtime_yellow => (nRed = 0 /\ nYellow = 0)

\* C20 witness: a finished run with a staff member whose estimated overtime
\* is exactly the red threshold and who has a HIGH_OVERTIME warning.
C20_Witness ==
    /\ pc = "done"
    /\ \E sid \in StaffIds :
         /\ OvertimeAsClaimed(sid) = rules.overtime_red
         /\ ScheduledShifts(sid, "NIGHT") > 0
         /\ StaffWarnings("HIGH_OVERTIME", sid, "YELLOW") # {}

\* ------------------------------------------------------------------- C21
\* the checks of the DAY loop (lines 220-222) and of the NIGHT loop
\* (lines 235-236) on a staff member, as they stand in the current state
PassesDayChecks(sid, d) ==
    DayCandidate(staff_state[sid]) /\ CanAssignShift(staff_state[sid], d, "DAY")
PassesNightChecks(sid, d) ==
    NightCandidate(staff_state[sid]) /\ CanAssignShift(staff_state[sid], d, "NIGHT")

\* a is considered before b on date d: a smaller priority key, or an equal
\* key and an earlier row of the roster
Precedes(a, b, d) ==
    \/ PriorityKey(a, d) < PriorityKey(b, d)
    \/ PriorityKey(a, d) = PriorityKey(b, d) /\ a < b

\* C21: on every date the staff are considered in ascending order of the
\* priority key of the start of the date, equal keys in roster order: of two
\* staff who are not OFF and pass the DAY checks, the later one is assigned
\* DAY only if the earlier one is; the same for NIGHT among the staff not
\* assigned DAY on the date.
C21_PriorityOrderRespected ==
    [][/\ pc = "fill_day" =>
            \A a \in StaffIds, b \in StaffIds :
               ( /\ AvailableOn(a, date_idx) /\ AvailableOn(b, date_idx)
                 /\ PassesDayChecks(a, date_idx) /\ PassesDayChecks(b, date_idx)
                 /\ Precedes(a, b, date_idx)
                 /\ b \in Range(day_assigned') )
               => a \in Range(day_assigned')
       /\ pc = "fill_night" =>
            \A a \in StaffIds \ Range(day_assigned),
               b \in StaffIds \ Range(day_assigned) :
               ( /\ AvailableOn(a, date_idx) /\ AvailableOn(b, date_idx)
                 /\ PassesNightChecks(a, date_idx) /\ PassesNightChecks(b, date_idx)
                 /\ Precedes(a, b, date_idx)
                 /\ b \in Range(night_assigned') )
               => a \in Range(night_assigned')
      ]_vars

\* a date whose DAY slot went to the later row of the roster because its key
\* was smaller, the earlier row passing the DAY checks too
C21_Witness ==
    /\ pc = "fill_night"
    /\ \E a \in StaffIds, b \in StaffIds :
          /\ b < a
          /\ a \in Range(day_assigned)
          /\ b \notin Range(day_assigned)
          /\ AvailableOn(b, date_idx)
          /\ PassesDayChecks(b, date_idx)
          /\ PriorityKey(a, date_idx) - 1 < PriorityKey(b, date_idx)

\* ------------------------------------------------------------------- C22
\* the staff who were not given DAY on the running date are in the state
\* the DAY loop met them in, and those given no shift in the state the
\* NIGHT loop met them in
Unassigned(sid) == sid \notin Range(day_assigned) \cup Range(night_assigned)

\* C22: on a weekend/holiday date a staff member without
\* can_weekend_holiday is assigned DAY (or NIGHT) only if every
\* weekend-eligible staff member who is available and passes the DAY (or
\* NIGHT) checks is assigned too, whatever desired_days and assigned_days
\* are; and such a staff member who passes the checks is left out only when
\* the target of the date is filled.
C22_RestrictedStaffSortLast ==
    /\ (pc = "fill_night" /\ IsWeekendOrHoliday(date_idx)) =>
          \A r \in StaffIds, e \in StaffIds :
             ( /\ ~staff_df[r].can_weekend_holiday
               /\ staff_df[e].can_weekend_holiday
               /\ r \in Range(day_assigned)
               /\ AvailableOn(e, date_idx)
               /\ e \notin Range(day_assigned) )
             => ~PassesDayChecks(e, date_idx)
    /\ (pc = "shortage" /\ IsWeekendOrHoliday(date_idx)) =>
          \A r \in StaffIds, e \in StaffIds :
             ( /\ ~staff_df[r].can_weekend_holiday
               /\ staff_df[e].can_weekend_holiday
               /\ r \in Range(night_assigned)
               /\ AvailableOn(e, date_idx)
               /\ Unassigned(e) )
             => ~PassesNightChecks(e, date_idx)
    /\ (pc = "fill_night" /\ IsWeekendOrHoliday(date_idx)) =>
          \A r \in StaffIds :
             ( /\ ~staff_df[r].can_weekend_holiday
               /\ AvailableOn(r, date_idx)
               /\ r \notin Range(day_assigned)
               /\ PassesDayChecks(r, date_idx) )
             => Len(day_assigned) >= min_day_today
    /\ (pc = "shortage" /\ IsWeekendOrHoliday(date_idx)) =>
          \A r \in StaffIds :
             ( /\ ~staff_df[r].can_weekend_holiday
               /\ AvailableOn(r, date_idx)
               /\ Unassigned(r)
               /\ PassesNightChecks(r, date_idx) )
             => Len(night_assigned) >= min_night_today

\* ------------------------------------------------------------------- C23
\* the row of the roster asks date d off
OffByRequest(sid, d) == d \in staff_df[sid].requested_off

AtDesired(sid) == staff_state[sid].assigned_days = staff_state[sid].desired_days

WorkedNightBefore(sid, d) == GetShift(staff_state[sid].shifts, d - 1) = "NIGHT"

\* C23: a shortage is reported only when the list is exhausted: when a date
\* ends with fewer DAY assignments than its DAY target, every staff member
\* not assigned DAY on it is OFF by request, lacks can_day, has
\* assigned_days = desired_days or worked NIGHT on the previous date; when
\* it ends with fewer NIGHT assignments than its NIGHT target, every staff
\* member with no shift on it is OFF by request, lacks can_night or has
\* assigned_days = desired_days.
C23_ShortageOnlyWhenExhausted ==
    pc = "shortage" =>
      /\ Len(day_assigned) < min_day_today =>
            \A sid \in StaffIds \ Range(day_assigned) :
               \/ OffByRequest(sid, date_idx)
               \/ ~staff_df[sid].can_day
               \/ AtDesired(sid)
               \/ WorkedNightBefore(sid, date_idx)
      /\ Len(night_assigned) < min_night_today =>
            \A sid \in StaffIds :
               Unassigned(sid) =>
                  \/ OffByRequest(sid, date_idx)
                  \/ ~staff_df[sid].can_night
                  \/ AtDesired(sid)

\* a date short of DAY staff although a staff member who can work DAY, is
\* below desired_days and asked no day off is on the roster: they worked
\* NIGHT the date before
C23_Witness ==
    /\ pc = "shortage"
    /\ Len(day_assigned) < min_day_today
    /\ \E sid \in StaffIds \ Range(day_assigned) :
          /\ staff_df[sid].can_day
          /\ ~OffByRequest(sid, date_idx)
          /\ staff_state[sid].assigned_days < staff_state[sid].desired_days
          /\ WorkedNightBefore(sid, date_idx)

\* ------------------------------------------------------------------- C24
\* every entry of the date -> shift mapping of the current state is in the
\* next state with the same shift type
EntriesKept ==
    \A sid \in DOMAIN staff_state :
       /\ sid \in DOMAIN staff_state'
       /\ \A d \in DOMAIN staff_state[sid].shifts :
             /\ d \in DOMAIN staff_state'[sid].shifts
             /\ staff_state'[sid].shifts[d] = staff_state[sid].shifts[d]

\* assigned_days is the number of DAY and NIGHT entries
AssignedDaysCounted ==
    \A sid \in DOMAIN staff_state :
       staff_state[sid].assigned_days =
          Cardinality({d \in DOMAIN staff_state[sid].shifts :
                         staff_state[sid].shifts[d] \in {"DAY", "NIGHT"}})

\* C24: the date -> shift mapping of a staff member is write-once: an entry
\* that is set (OFF by request, DAY or NIGHT) is changed by no later step,
\* neither by the NIGHT fill, nor by the closing OFF fill, nor by the risk
\* evaluation; and in every state assigned_days equals the number of DAY
\* and NIGHT entries of the staff member.
C24_ShiftEntriesWriteOnce ==
    [][EntriesKept]_vars /\ []AssignedDaysCounted

\* a finished run in which a staff member still has the OFF of a requested
\* date and a NIGHT of phase 2, on a date where another staff member holds
\* the DAY
C24_Witness ==
    /\ pc = "done"
    /\ \E sid \in StaffIds, other \in StaffIds :
          /\ \E d \in Dates :
                /\ staff_state[sid].shifts[d] = "OFF"
                /\ OffByRequest(sid, d)
          /\ \E d \in Dates :
                /\ staff_state[sid].shifts[d] = "NIGHT"
                /\ staff_state[other].shifts[d] = "DAY"
          /\ staff_state[sid].assigned_days > 0

\* ------------------------------------------------------------------- C25
\* C25: each run is self-contained: after a further call of
\* generate_schedule on the same instance with unchanged inputs the schedule
\* list and the warning list equal what the first call produced (still
\* staff_count x days_in_month schedule entries, no duplicated warnings).
C25_SecondCallSameResult ==
    (pc = "done" /\ earlier # <<>>) =>
       /\ schedule = earlier[1].schedule
       /\ warnings = earlier[1].warnings
       /\ Len(schedule) = Len(staff_df) * days_in_month

\* ------------------------------------------------------------------- C26
\* C26: the extra slots that spill over to weekday dates are spread by
\* cycling through the weekday dates: at the end of the distribution the
\* extra counts of any two weekday dates differ by at most 1.
C26_WeekdaySpillEven ==
    pc = "init_staff" =>
       \A d1 \in Range(WeekdayDates), d2 \in Range(WeekdayDates) :
          daily_demand[d1] - daily_demand[d2] <= 1

=============================================================================
